---- MODULE Spec2Model ----
(***************************************************************************)
(* Yaner: the life cycle of one download task (yaner/Task.py), the         *)
(* add_task / remove_task calls it makes on the three groupings of         *)
(* yaner/Presentable.py, the status poller, and the aria2 XML-RPC calls in *)
(* flight.  One step of the model is one run of one handler on the GLib    *)
(* main loop: a user operation, a timer tick or the callback / errback of  *)
(* one answered call.  The first-generation TaskMixin (Yaner/Task.py) and   *)
(* its self-ending status poll are modelled beside it.                     *)
(***************************************************************************)
EXTENDS Integers, Sequences, FiniteSets, Bags, TLC

\* ------------------------------------------------------------------ bounds
MaxInFlight == 2
MaxHeld == 2
MaxPending == 1
MaxListed == 1
MaxLen == 2
MaxPolls == 2

\* ------------------------------------------------------- Task.STATUSES
INACTIVE == "INACTIVE"
ACTIVE == "ACTIVE"
WAITING == "WAITING"
PAUSED == "PAUSED"
COMPLETE == "COMPLETE"
ERROR == "ERROR"
TRASHED == "TRASHED"
STATUSES == {INACTIVE, ACTIVE, WAITING, PAUSED, COMPLETE, ERROR, TRASHED}

\* ---------------------------------------------------------- Task.TYPES
NORMAL == "NORMAL"
BT == "BT"
ML == "ML"
TYPES == {NORMAL, BT, ML}

None == "None"
NoGid == "-"

\* The identifiers the engine hands out, and the results of an add call: a
\* single identifier or a list of identifiers.
GIDS == {"g1", "g2"}
AddResults ==
    {[isList |-> FALSE, val |-> <<g>>] : g \in GIDS}
        \cup {[isList |-> TRUE, val |-> <<"g1", "g2">>],
              [isList |-> TRUE, val |-> <<"g2", "g1">>]}

OneGid == {[isList |-> FALSE, val |-> <<"g1">>]}

\* gid[-1] if isinstance(gid, list) else gid
TrackedGidFirst(result) == result.val[1]
TrackedGid(result) ==
    IF result.isList THEN result.val[Len(result.val)] ELSE result.val[1]

\* ------------------------------------------------ strings and numerals
\* A string is a sequence of characters; "%61" stands for the escape of "a".
RECURSIVE Basename(_)
Basename(path) ==
    IF path = <<>> THEN <<>>
    ELSE IF path[Len(path)] = "/" THEN <<>>
    ELSE Basename(SubSeq(path, 1, Len(path) - 1)) \o <<path[Len(path)]>>

RECURSIVE Unquote(_)
Unquote(s) ==
    IF s = <<>> THEN <<>>
    ELSE <<IF s[1] = "%61" THEN "a" ELSE s[1]>> \o Unquote(Tail(s))

\* int() of a decimal numeral, a sequence of digits.
RECURSIVE ParseInt(_)
ParseInt(digits) ==
    IF digits = <<>> THEN 0
    ELSE 10 * ParseInt(SubSeq(digits, 1, Len(digits) - 1)) + digits[Len(digits)]

Numeral(n) == IF n < 10 THEN <<n>> ELSE <<n \div 10, n % 10>>

\* ------------------------------------------------- tellStatus results
InitialName == <<"n">>
Paths == {<<"d", "/", "%61">>, <<"b">>, <<"d", "/">>}
FileLists == {<<>>} \cup {<<[path |-> p]>> : p \in Paths}
                 \cup {<<[path |-> <<"b">>], [path |-> <<"c">>]>>}
TorrentNames == {<<"%61">>, <<"b">>, <<>>}
EngineStatuses == {"active", "waiting", "paused", "complete", "error", "removed"}

\* The engine reports completedLength <= totalLength once it knows the total
\* length; while it does not (totalLength 0) it reports what it has.
Lengths ==
    {lc \in (0..MaxLen) \X (0..MaxLen) : lc[1] = 0 \/ lc[2] <= lc[1]}

\* A tellStatus result of the engine.
Result(st, lc, ld, files, has_bt, bt_name) ==
    [status |-> st,
     totalLength |-> Numeral(lc[1]), completedLength |-> Numeral(lc[2]),
     downloadSpeed |-> Numeral(ld[1]), uploadSpeed |-> Numeral(ld[2]),
     connections |-> Numeral(ld[3]),
     files |-> files, has_bittorrent |-> has_bt, bittorrent_name |-> bt_name]

\* ------------------------------------------------------------ environments
\* What the engine answers and how much is outstanding at once.  The task's
\* code is the same in all of them.
\*   Lifecycle: every status, nothing downloaded or everything; calls race.
\*   Watched:   Lifecycle, with the history of how remote activity ended.
\*   Data:      every pair of byte counts, running, complete or removed.
\*   Kinds:     the three task types and the names their results carry.
\*   Idents:    the three task types and the identifiers an add returns.
\*   Sync:      every status, with byte counts, speeds and connections that
\*              differ from the initial ones.
\*   Mixin:     the first-generation task: the three task classes, the
\*              identifiers an add returns, every status; calls race.
LifecycleResults ==
    {Result(st, lc, <<0, 0, 0>>, <<>>, FALSE, <<>>) :
        st \in EngineStatuses, lc \in {<<0, 0>>, <<1, 1>>}}

DataResults ==
    {Result(st, lc, <<0, 0, 0>>, <<>>, FALSE, <<>>) :
        st \in {"active", "complete", "removed"}, lc \in Lengths}

KindsResults(t) ==
    {Result(st, <<0, 0>>, <<0, 0, 0>>, fs, bt[1], bt[2]) :
        st \in {"active", "complete", "removed"},
        fs \in IF t = NORMAL THEN FileLists ELSE {<<[path |-> <<"b">>]>>},
        bt \in IF t = BT THEN {<<TRUE, n>> : n \in TorrentNames}
                              \cup {<<FALSE, <<>>>>}
               ELSE {<<FALSE, <<>>>>}}

IdentResults ==
    {Result(st, <<0, 0>>, <<0, 0, 0>>, <<>>, FALSE, <<>>) :
        st \in {"active", "paused", "complete"}}

SyncResults ==
    {Result(st, lc, ld, <<>>, FALSE, <<>>) :
        st \in EngineStatuses, lc \in {<<0, 0>>, <<MaxLen, 1>>},
        ld \in {<<0, 0, 0>>, <<1, 2, 3>>}}

MixinResults ==
    {Result(st, lc, <<0, 0, 0>>, <<>>, FALSE, <<>>) :
        st \in EngineStatuses, lc \in {<<0, 0>>, <<1, 1>>, <<MaxLen, 1>>}}

Lifecycle ==
    [types |-> {NORMAL}, capacity |-> MaxInFlight, held |-> MaxHeld,
     watch |-> FALSE, adds |-> OneGid,
     results |-> [t \in TYPES |-> LifecycleResults]]
Watched == [Lifecycle EXCEPT !.watch = TRUE]
Data ==
    [types |-> {NORMAL}, capacity |-> MaxPending, held |-> MaxListed,
     watch |-> FALSE, adds |-> OneGid,
     results |-> [t \in TYPES |-> DataResults]]
Kinds ==
    [types |-> TYPES, capacity |-> MaxPending, held |-> MaxListed,
     watch |-> FALSE, adds |-> OneGid,
     results |-> [t \in TYPES |-> KindsResults(t)]]
Idents ==
    [types |-> TYPES, capacity |-> MaxPending, held |-> MaxListed,
     watch |-> FALSE, adds |-> AddResults,
     results |-> [t \in TYPES |-> IdentResults]]
Sync ==
    [types |-> {NORMAL}, capacity |-> MaxPending, held |-> MaxListed,
     watch |-> FALSE, adds |-> OneGid,
     results |-> [t \in TYPES |-> SyncResults]]
Mixin ==
    [types |-> TYPES, capacity |-> MaxInFlight, held |-> MaxListed,
     watch |-> FALSE, adds |-> AddResults,
     results |-> [t \in TYPES |-> MixinResults]]

\* ------------------------------------------------------------------ state
VARIABLES
    type,                   \* Task.type
    status,                 \* Task._status
    gid,                    \* Task.gid
    name,                   \* Task.name
    renamed,                \* Task._renamed
    total_length,           \* Task.total_length
    completed_length,       \* Task.completed_length
    load,                   \* <<download_speed, upload_speed, connections>>
    status_update_handle,   \* Task._status_update_handle
    database_sync_handle,   \* Task._database_sync_handle
    poll_sources,           \* live GLib timeouts calling _call_tell_status
    sync_sources,           \* live GLib timeouts calling _sync_update
    queuing,                \* times pool.queuing holds the task, by its calls
    category,               \* times the category holds the task, by its calls
    dustbin,                \* times pool.dustbin holds the task, by its calls
    inflight,               \* the bag of calls sent and not yet answered
    deleted,                \* SQLSession.delete(task) was made
    settled,                \* history: the poll result ("complete"), the
                            \* failed poll ("failed") or the other failed
                            \* call, with no add outstanding ("refused"),
                            \* that ended the task's remote activity, while
                            \* the user has not operated the task since
    last,                   \* what the last handler run did
    info_gid,               \* TaskMixin: conf.info.gid
    info_size,              \* TaskMixin: conf.info.size
    info_percent,           \* TaskMixin: conf.info.percent
    status_timeouts,        \* TaskMixin: live GLib timeouts calling
                            \* __call_for_status
    after_complete          \* history: the poll ticks since the last
                            \* 'complete' response, Never before one and
                            \* after a start()

taskVars == <<type, status, gid, name, renamed, total_length, completed_length,
              load>>
pollerVars == <<status_update_handle, database_sync_handle, poll_sources,
                sync_sources>>
groupVars == <<queuing, category, dustbin>>
mixinVars == <<info_gid, info_size, info_percent, status_timeouts,
               after_complete>>
vars == <<taskVars, pollerVars, groupVars, inflight, deleted, settled, last,
          mixinVars>>

NoCall == [m |-> "none", gid |-> NoGid]
NoArg == [none |-> TRUE]
Call(m, g) == [m |-> m, gid |-> g]

\* The record of one handler run: the handler, the call it answers and the
\* result it is given, the add_task / remove_task calls made on the
\* groupings, the remote calls issued, the notifications shown, the
\* 'changed' signals of the task, the commits, the GLib timeouts created and
\* removed, and whether the run assigned pool.connected = True (nothing in
\* the task ever reads or clears that flag).
Quiet(op) ==
    [op |-> op, call |-> NoCall, arg |-> NoArg, calls |-> <<>>, rpcs |-> <<>>,
     notes |-> 0, changed |-> 0, commits |-> 0, timers |-> 0, cancels |-> 0,
     connected |-> FALSE]

\* -------------------------------------------------------------- groupings
\* Presentable.add_task and Presentable.remove_task only emit 'changed' and
\* 'task-added' / 'task-removed'.  What a grouping holds is counted from
\* these calls: add_task adds the task once more, remove_task takes it out
\* once when the grouping holds it.
add_task(held) == held + 1
remove_task(held) == IF held > 0 THEN held - 1 ELSE 0

RECURSIVE HeldAfter(_, _, _)
HeldAfter(grouping, held, calls) ==
    IF calls = <<>> THEN held
    ELSE HeldAfter(grouping,
                   IF Head(calls) = <<grouping, "add_task">> THEN add_task(held)
                   ELSE IF Head(calls) = <<grouping, "remove_task">>
                        THEN remove_task(held)
                   ELSE held,
                   Tail(calls))

Emit(e, calls) ==
    /\ queuing' = HeldAfter("queuing", queuing, calls)
    /\ category' = HeldAfter("category", category, calls)
    /\ dustbin' = HeldAfter("dustbin", dustbin, calls)
    /\ queuing' <= e.held /\ category' <= e.held /\ dustbin' <= e.held

\* ------------------------------------------------------------ remote calls
\* pool.proxy.call(...).start(): the call joins the calls in flight; the
\* call answered leaves them.
Send(e, answered, issued) ==
    LET rest == IF answered = NoCall THEN inflight
                ELSE inflight (-) SetToBag({answered})
        sent == IF issued = <<>> THEN rest
                ELSE rest (+) SetToBag({issued[1]})
    IN  /\ BagCardinality(sent) <= e.capacity
        /\ inflight' = sent

Pending(methods) == {c \in BagToSet(inflight) : c.m \in methods}

\* ------------------------------------------------------- the status setter
\* Task.status setter: a change of value commits and emits 'changed'.
StatusChangedUnnoticed(new) == 0
StatusChanged(new) == IF status # new THEN 1 ELSE 0

\* Task.completed
CompletedIgnoringTotal(total, done) == total = done
Completed(total, done) == total # 0 /\ total = done

\* ------------------------------------------------------------ the poller
begin_update_status_unguarded ==
    /\ status_update_handle' = "source"
    /\ database_sync_handle' = "source"
    /\ poll_sources' = poll_sources + 1
    /\ sync_sources' = sync_sources + 1

begin_update_status_poll_only ==
    IF status_update_handle = None
    THEN /\ status_update_handle' = "source"
         /\ poll_sources' = poll_sources + 1
         /\ UNCHANGED <<database_sync_handle, sync_sources>>
    ELSE UNCHANGED pollerVars

begin_update_status ==
    IF status_update_handle = None
    THEN /\ status_update_handle' = "source"
         /\ database_sync_handle' = "source"
         /\ poll_sources' = poll_sources + 1
         /\ sync_sources' = sync_sources + 1
    ELSE UNCHANGED pollerVars

end_update_status_poll_only ==
    /\ status_update_handle' = None
    /\ poll_sources' =
           IF status_update_handle # None /\ poll_sources > 0
           THEN poll_sources - 1 ELSE poll_sources
    /\ UNCHANGED <<database_sync_handle, sync_sources>>

end_update_status ==
    /\ status_update_handle' = None
    /\ database_sync_handle' = None
    /\ poll_sources' =
           IF status_update_handle # None /\ poll_sources > 0
           THEN poll_sources - 1 ELSE poll_sources
    /\ sync_sources' =
           IF database_sync_handle # None /\ sync_sources > 0
           THEN sync_sources - 1 ELSE sync_sources

\* ------------------------------------------------------------------- Init
Never == -1

\* A TaskMixin of a new download: no gid yet, nothing downloaded, no poll.
MixinInit ==
    /\ info_gid = ""
    /\ info_size = <<0>>
    /\ info_percent = 0
    /\ status_timeouts = 0
    /\ after_complete = Never

\* Task.__init__ with its defaults, then Task._init
Init(e) ==
    /\ MixinInit
    /\ type \in e.types
    /\ status = INACTIVE
    /\ gid = ""
    /\ name = InitialName
    /\ renamed = FALSE
    /\ total_length = 0
    /\ completed_length = 0
    /\ load = <<0, 0, 0>>
    /\ status_update_handle = None
    /\ database_sync_handle = None
    /\ poll_sources = 0
    /\ sync_sources = 0
    /\ queuing = 0
    /\ category = 0
    /\ dustbin = 0
    /\ inflight = EmptyBag
    /\ deleted = FALSE
    /\ settled = "no"
    /\ last = Quiet("init")

\* -------------------------------------------------------- user operations
AddMethod(t) ==
    IF t = NORMAL THEN "aria2.addUri"
    ELSE IF t = BT THEN "aria2.addTorrent"
    ELSE "aria2.addMetalink"

AddMethods == {AddMethod(t) : t \in TYPES}

\* NormalTask.add, BTTask.add, MLTask.add
add_uri == Call("aria2.addUri", NoGid)
add == Call(AddMethod(type), NoGid)

StartUnpausesNever(s) == FALSE
StartUnpauses(s) == s = PAUSED
StartAdds(s) == s \in {INACTIVE, ERROR}

\* Task.start
Start(e) ==
    /\ UNCHANGED <<taskVars, pollerVars, deleted>>
    /\ UNCHANGED mixinVars
    /\ settled' = "no"
    /\ IF StartUnpauses(status)
       THEN /\ Send(e, NoCall, <<Call("aria2.unpause", gid)>>)
            /\ UNCHANGED groupVars
            /\ last' = [Quiet("start") EXCEPT
                           !.rpcs = <<Call("aria2.unpause", gid)>>]
       ELSE IF StartAdds(status)
       THEN /\ Send(e, NoCall, <<add>>)
            /\ Emit(e, <<<<"queuing", "add_task">>>>)
            /\ last' = [Quiet("start") EXCEPT
                           !.rpcs = <<add>>,
                           !.calls = <<<<"queuing", "add_task">>>>]
       ELSE /\ UNCHANGED <<groupVars, inflight>>
            /\ last' = Quiet("start")

PauseAlways(s) == TRUE
PauseOnlyActive(s) == s = ACTIVE
PauseAllowed(s) == s \in {ACTIVE, WAITING}

\* Task.pause
Pause(e) ==
    /\ UNCHANGED <<taskVars, pollerVars, groupVars, deleted>>
    /\ UNCHANGED mixinVars
    /\ settled' = "no"
    /\ IF PauseAllowed(status)
       THEN /\ Send(e, NoCall, <<Call("aria2.pause", gid)>>)
            /\ last' = [Quiet("pause") EXCEPT
                           !.rpcs = <<Call("aria2.pause", gid)>>]
       ELSE /\ UNCHANGED inflight
            /\ last' = Quiet("pause")

\* Task._on_trashed: the grouping left is chosen by the status at the call.
TrashedCalls(s) ==
    IF s = COMPLETE
    THEN <<<<"category", "remove_task">>, <<"dustbin", "add_task">>>>
    ELSE <<<<"queuing", "remove_task">>, <<"dustbin", "add_task">>>>

TrashNowUnlessError(s) == s \in {COMPLETE, INACTIVE}
TrashNow(s) == s \in {COMPLETE, ERROR, INACTIVE}
TrashRemote(s) == s \in {WAITING, ACTIVE, PAUSED}

\* Task.trash
Trash(e) ==
    /\ UNCHANGED <<type, gid, name, renamed, total_length, completed_length,
                   load, pollerVars, deleted>>
    /\ UNCHANGED mixinVars
    /\ settled' = "no"
    /\ IF TrashNow(status)
       THEN /\ status' = TRASHED
            /\ Emit(e, TrashedCalls(status))
            /\ UNCHANGED inflight
            /\ last' = [Quiet("trash") EXCEPT
                           !.calls = TrashedCalls(status),
                           !.changed = StatusChanged(TRASHED),
                           !.commits = StatusChanged(TRASHED)]
       ELSE IF TrashRemote(status)
       THEN /\ Send(e, NoCall, <<Call("aria2.remove", gid)>>)
            /\ UNCHANGED <<status, groupVars>>
            /\ last' = [Quiet("trash") EXCEPT
                           !.rpcs = <<Call("aria2.remove", gid)>>]
       ELSE /\ UNCHANGED <<status, groupVars, inflight>>
            /\ last' = Quiet("trash")

RestoreCalls(done) ==
    IF done
    THEN <<<<"dustbin", "remove_task">>, <<"category", "add_task">>>>
    ELSE <<<<"dustbin", "remove_task">>, <<"queuing", "add_task">>>>

\* Task.restore
Restore(e) ==
    /\ UNCHANGED <<type, gid, name, renamed, total_length, completed_length,
                   load, pollerVars, inflight, deleted>>
    /\ UNCHANGED mixinVars
    /\ settled' = "no"
    /\ IF status = TRASHED
       THEN LET done == Completed(total_length, completed_length)
                new == IF done THEN COMPLETE ELSE INACTIVE
            IN  /\ status' = new
                /\ Emit(e, RestoreCalls(done))
                /\ last' = [Quiet("restore") EXCEPT
                               !.calls = RestoreCalls(done),
                               !.changed = StatusChanged(new),
                               !.commits = StatusChanged(new)]
       ELSE /\ UNCHANGED <<status, groupVars>>
            /\ last' = Quiet("restore")

\* Task.remove
Remove(e) ==
    /\ UNCHANGED <<taskVars, pollerVars, inflight>>
    /\ UNCHANGED mixinVars
    /\ settled' = "no"
    /\ IF status = TRASHED
       THEN /\ Emit(e, <<<<"dustbin", "remove_task">>>>)
            /\ deleted' = TRUE
            /\ last' = [Quiet("remove") EXCEPT
                           !.calls = <<<<"dustbin", "remove_task">>>>,
                           !.commits = 1]
       ELSE /\ UNCHANGED <<groupVars, deleted>>
            /\ last' = Quiet("remove")

\* ------------------------------------------------------------- timer ticks
PollStopsUnlessError(s) == s \in {COMPLETE, TRASHED, INACTIVE}
PollStops(s) == s \in {COMPLETE, ERROR, TRASHED, INACTIVE}

\* Task._call_tell_status, run by the status-poll timeout.
CallTellStatus(e) ==
    /\ poll_sources > 0
    /\ UNCHANGED <<taskVars, groupVars, deleted, settled, mixinVars>>
    /\ IF PollStops(status)
       THEN /\ end_update_status
            /\ UNCHANGED inflight
            /\ last' = [Quiet("call_tell_status") EXCEPT
                           !.cancels = (poll_sources - poll_sources')
                                         + (sync_sources - sync_sources')]
       ELSE /\ Send(e, NoCall, <<Call("aria2.tellStatus", gid)>>)
            /\ UNCHANGED pollerVars
            /\ last' = [Quiet("call_tell_status") EXCEPT
                           !.rpcs = <<Call("aria2.tellStatus", gid)>>]

\* Task._sync_update, run by the database-sync timeout.
SyncUpdate ==
    /\ sync_sources > 0
    /\ UNCHANGED <<taskVars, pollerVars, groupVars, inflight, deleted, settled, mixinVars>>
    /\ last' = [Quiet("sync_update") EXCEPT !.commits = 1]

\* ---------------------------------------------------------------- callbacks
\* Task._on_started, with Task._update_session_id and begin_update_status.
OnStarted(e) ==
    \E c \in Pending(AddMethods) : \E result \in e.adds :
        /\ gid' = TrackedGid(result)
        /\ status' = ACTIVE
        /\ Send(e, c, <<Call("aria2.getSessionInfo", gid')>>)
        /\ begin_update_status
        /\ UNCHANGED <<type, name, renamed, total_length, completed_length,
                       load, groupVars, deleted, settled, mixinVars>>
        /\ last' = [Quiet("on_started") EXCEPT
                       !.call = c, !.arg = result,
                       !.rpcs = <<Call("aria2.getSessionInfo", gid')>>,
                       !.changed = StatusChanged(ACTIVE),
                       !.commits = StatusChanged(ACTIVE),
                       !.timers = (poll_sources' - poll_sources)
                                    + (sync_sources' - sync_sources)]

\* on_got_session_info of Task._update_session_id: the session id is stored
\* and committed; nothing reads it.
OnGotSessionInfo(e) ==
    \E c \in Pending({"aria2.getSessionInfo"}) :
        /\ Send(e, c, <<>>)
        /\ UNCHANGED <<taskVars, pollerVars, groupVars, deleted, settled, mixinVars>>
        /\ last' = [Quiet("on_got_session_info") EXCEPT
                       !.call = c, !.commits = 1]

\* Task._on_paused
OnPaused(e) ==
    \E c \in Pending({"aria2.pause"}) :
        /\ status' = PAUSED
        /\ Send(e, c, <<>>)
        /\ UNCHANGED <<type, gid, name, renamed, total_length, completed_length,
                       load, pollerVars, groupVars, deleted, settled, mixinVars>>
        /\ last' = [Quiet("on_paused") EXCEPT
                       !.call = c,
                       !.changed = StatusChanged(PAUSED),
                       !.commits = StatusChanged(PAUSED)]

\* Task._on_unpaused
OnUnpaused(e) ==
    \E c \in Pending({"aria2.unpause"}) :
        /\ status' = ACTIVE
        /\ Send(e, c, <<>>)
        /\ UNCHANGED <<type, gid, name, renamed, total_length, completed_length,
                       load, pollerVars, groupVars, deleted, settled, mixinVars>>
        /\ last' = [Quiet("on_unpaused") EXCEPT
                       !.call = c,
                       !.changed = StatusChanged(ACTIVE),
                       !.commits = StatusChanged(ACTIVE)]

\* Task._on_trashed as the callback of aria2.remove
OnTrashed(e) ==
    \E c \in Pending({"aria2.remove"}) :
        /\ status' = TRASHED
        /\ Emit(e, TrashedCalls(status))
        /\ Send(e, c, <<>>)
        /\ UNCHANGED <<type, gid, name, renamed, total_length, completed_length,
                       load, pollerVars, deleted, settled, mixinVars>>
        /\ last' = [Quiet("on_trashed") EXCEPT
                       !.call = c,
                       !.calls = TrashedCalls(status),
                       !.changed = StatusChanged(TRASHED),
                       !.commits = StatusChanged(TRASHED)]

\* Task._on_xmlrpc_error, the errback of every call
OnXmlrpcError(e) ==
    \E c \in BagToSet(inflight) :
        /\ status' = ERROR
        /\ Send(e, c, <<>>)
        /\ UNCHANGED mixinVars
        /\ settled' = IF e.watch /\ c.m = "aria2.tellStatus"
                      THEN "failed"
                      ELSE IF /\ e.watch /\ settled = "no"
                              /\ c.m # "aria2.getSessionInfo"
                              /\ \A d \in BagToSet(inflight (-) SetToBag({c})) :
                                     d.m \notin AddMethods
                      THEN "refused" ELSE settled
        /\ UNCHANGED <<type, gid, name, renamed, total_length, completed_length,
                       load, pollerVars, groupVars, deleted>>
        /\ last' = [Quiet("on_xmlrpc_error") EXCEPT
                       !.call = c, !.notes = 1,
                       !.changed = StatusChanged(ERROR),
                       !.commits = StatusChanged(ERROR)]

\* ------------------------------------------------------- the status update
\* The statuses dictionary of Task._update_status
MappedStatusWaitingAsActive(s) ==
    CASE s = "active" -> ACTIVE
      [] s = "waiting" -> ACTIVE
      [] s = "paused" -> PAUSED
      [] s = "complete" -> COMPLETE
      [] s = "error" -> ERROR
      [] s = "removed" -> TRASHED

MappedStatus(s) ==
    CASE s = "active" -> ACTIVE
      [] s = "waiting" -> WAITING
      [] s = "paused" -> PAUSED
      [] s = "complete" -> COMPLETE
      [] s = "error" -> ERROR
      [] s = "removed" -> TRASHED

\* NormalTask._update_status, BTTask._update_status: the name the update
\* gives the task, <<>> when it gives none.
RenameUnlocked(t, locked, r) ==
    IF t = NORMAL
    THEN IF Len(r.files) = 1
         THEN Unquote(Basename(r.files[1].path)) ELSE <<>>
    ELSE IF t = BT
    THEN IF r.has_bittorrent THEN Unquote(r.bittorrent_name) ELSE <<>>
    ELSE <<>>

Rename(t, locked, r) ==
    IF locked THEN <<>>
    ELSE IF t = NORMAL
    THEN IF Len(r.files) = 1
         THEN Unquote(Basename(r.files[1].path)) ELSE <<>>
    ELSE IF t = BT
    THEN IF r.has_bittorrent THEN Unquote(r.bittorrent_name) ELSE <<>>
    ELSE <<>>

\* The byte counts stored from a result.
StoredLengthsCrossed(r) ==
    <<ParseInt(r.completedLength), ParseInt(r.totalLength)>>
StoredLengths(r) == <<ParseInt(r.totalLength), ParseInt(r.completedLength)>>

\* The add_task / remove_task calls of Task._update_status
UpdateCalls(new) ==
    IF new = COMPLETE
    THEN <<<<"queuing", "remove_task">>, <<"category", "add_task">>>>
    ELSE IF new = TRASHED THEN TrashedCalls(new)
    ELSE <<>>

\* NormalTask / BTTask / Task._update_status, the callback of aria2.tellStatus
UpdateStatus(e) ==
    \E c \in Pending({"aria2.tellStatus"}) : \E r \in e.results[type] :
        LET new == MappedStatus(r.status)
            newname == Rename(type, renamed, r)
        IN  /\ name' = IF newname # <<>> THEN newname ELSE name
            /\ renamed' = (renamed \/ newname # <<>>)
            /\ total_length' = StoredLengths(r)[1]
            /\ completed_length' = StoredLengths(r)[2]
            /\ load' = <<ParseInt(r.downloadSpeed), ParseInt(r.uploadSpeed),
                         ParseInt(r.connections)>>
            /\ status' = new
            /\ Emit(e, UpdateCalls(new))
            /\ Send(e, c, <<>>)
            /\ UNCHANGED mixinVars
            /\ settled' = IF e.watch /\ new = COMPLETE /\ status = ACTIVE
                               /\ status_update_handle # None /\ ~deleted
                          THEN "complete" ELSE settled
            /\ UNCHANGED <<type, gid, pollerVars, deleted>>
            /\ last' = [Quiet("update_status") EXCEPT
                           !.call = c, !.arg = r,
                           !.calls = UpdateCalls(new),
                           !.changed = StatusChanged(new)
                               + (IF new \in {COMPLETE, TRASHED} THEN 0 ELSE 1),
                           !.commits = StatusChanged(new),
                           !.connected = (new # TRASHED)]

\* ------------------------------------------------- membership queries
\* The status the queries of Presentable.py call REMOVED is the one Task.py
\* calls TRASHED.
REMOVED == TRASHED

\* Queuing.tasks, Category._get_tasks and Dustbin.tasks: whether the query
\* of the grouping includes a task of status s.
QueuingTasksButRemoved(s) == s # REMOVED

QueuingTasks(s) == s # REMOVED /\ s # COMPLETE

CategoryTasks(s) == s = COMPLETE

DustbinTasks(s) == s = REMOVED

\* ------------------------------------------- the poller, called directly
\* Task.begin_update_status and Task.end_update_status are public methods;
\* these steps call them from outside the task.
BeginUpdateStatus ==
    /\ begin_update_status
    /\ UNCHANGED <<taskVars, groupVars, inflight, deleted, settled, mixinVars>>
    /\ last' = [Quiet("begin_update_status") EXCEPT
                   !.timers = (poll_sources' - poll_sources)
                                + (sync_sources' - sync_sources)]

EndUpdateStatus ==
    /\ end_update_status
    /\ UNCHANGED <<taskVars, groupVars, inflight, deleted, settled, mixinVars>>
    /\ last' = [Quiet("end_update_status") EXCEPT
                   !.cancels = (poll_sources - poll_sources')
                                 + (sync_sources - sync_sources')]

\* ------------------------------------- the first-generation TaskMixin
\* Yaner/Task.py.  The mixin keeps no status: its poll runs while
\* conf.info.gid is not empty.  The row of the queuing model that
\* __update_iter fills is display only and is left out.
secondVars == <<taskVars, pollerVars, groupVars, deleted, settled>>

\* The poll ticks since the last 'complete' response, counted up to MaxPolls.
Ticked(n) == IF n = Never THEN Never ELSE IF n < MaxPolls THEN n + 1 ELSE n

\* NormalTask.start, BTTask.start, MetalinkTask.start
MixinStart(e) ==
    /\ Send(e, NoCall, <<add>>)
    /\ after_complete' = Never
    /\ UNCHANGED <<secondVars, info_gid, info_size, info_percent,
                   status_timeouts>>
    /\ last' = [Quiet("mixin.start") EXCEPT !.rpcs = <<add>>]

\* TaskMixin.pause
MixinPause(e) ==
    /\ Send(e, NoCall, <<Call("aria2.pause", info_gid)>>)
    /\ UNCHANGED <<secondVars, mixinVars>>
    /\ last' = [Quiet("mixin.pause") EXCEPT
                   !.rpcs = <<Call("aria2.pause", info_gid)>>]

\* TaskMixin.unpause
MixinUnpause(e) ==
    /\ Send(e, NoCall, <<Call("aria2.unpause", info_gid)>>)
    /\ UNCHANGED <<secondVars, mixinVars>>
    /\ last' = [Quiet("mixin.unpause") EXCEPT
                   !.rpcs = <<Call("aria2.unpause", info_gid)>>]

\* TaskMixin.__on_paused
MixinOnPaused(e) ==
    \E c \in Pending({"aria2.pause"}) :
        /\ Send(e, c, <<>>)
        /\ UNCHANGED <<secondVars, mixinVars>>
        /\ last' = [Quiet("mixin.on_paused") EXCEPT !.call = c]

\* TaskMixin.__on_unpaused
MixinOnUnpaused(e) ==
    \E c \in Pending({"aria2.unpause"}) :
        /\ Send(e, c, <<>>)
        /\ UNCHANGED <<secondVars, mixinVars>>
        /\ last' = [Quiet("mixin.on_unpaused") EXCEPT !.call = c]

\* TaskMixin.on_started: every answered add installs one more timeout.
MixinOnStartedGid(result) ==
    IF result.isList THEN result.val[Len(result.val)] ELSE result.val[1]

MixinOnStarted(e) ==
    \E c \in Pending(AddMethods) : \E result \in e.adds :
        /\ status_timeouts < MaxPolls
        /\ info_gid' = MixinOnStartedGid(result)
        /\ status_timeouts' = status_timeouts + 1
        /\ Send(e, c, <<>>)
        /\ UNCHANGED <<secondVars, info_size, info_percent, after_complete>>
        /\ last' = [Quiet("mixin.on_started") EXCEPT !.call = c, !.timers = 1]

\* TaskMixin.__call_for_status, run by one of its timeouts: returning False
\* removes that timeout.
PollsOn(g) == g # ""

CallForStatus(e) ==
    /\ status_timeouts > 0
    /\ after_complete' = Ticked(after_complete)
    /\ UNCHANGED <<secondVars, info_gid, info_size, info_percent>>
    /\ IF PollsOn(info_gid)
       THEN /\ Send(e, NoCall, <<Call("aria2.tellStatus", info_gid)>>)
            /\ UNCHANGED status_timeouts
            /\ last' = [Quiet("mixin.call_for_status") EXCEPT
                           !.rpcs = <<Call("aria2.tellStatus", info_gid)>>]
       ELSE /\ status_timeouts' = status_timeouts - 1
            /\ UNCHANGED inflight
            /\ last' = [Quiet("mixin.call_for_status") EXCEPT !.cancels = 1]

\* The percent of TaskMixin.__update_iter (Python 2 integer division).
Percent(r) ==
    IF r.status = "complete" THEN 100
    ELSE IF r.totalLength # <<0>>
         THEN (ParseInt(r.completedLength) \div ParseInt(r.totalLength)) * 100
         ELSE 0

\* The gid TaskMixin.__update_iter leaves stored.
GidAfter(g, r) == IF r.status = "complete" THEN "" ELSE g

\* TaskMixin.__update_iter, the callback of every tellStatus call (the
\* name is private to TaskMixin, so the subclasses' methods of that name
\* are not the ones __call_for_status registers).
UpdateIter(e) ==
    \E c \in Pending({"aria2.tellStatus"}) : \E r \in e.results[type] :
        /\ info_gid' = GidAfter(info_gid, r)
        /\ info_size' = r.totalLength
        /\ info_percent' = Percent(r)
        /\ after_complete' = IF r.status = "complete" THEN 0
                             ELSE after_complete
        /\ Send(e, c, <<>>)
        /\ UNCHANGED <<secondVars, status_timeouts>>
        /\ last' = [Quiet("mixin.update_iter") EXCEPT !.call = c, !.arg = r]

\* TaskMixin.on_twisted_error, the errback of every call
OnTwistedError(e) ==
    \E c \in BagToSet(inflight) :
        /\ Send(e, c, <<>>)
        /\ UNCHANGED <<secondVars, mixinVars>>
        /\ last' = [Quiet("mixin.on_twisted_error") EXCEPT
                       !.call = c, !.notes = 1]

StepMixin(e) ==
    \/ MixinStart(e)
    \/ MixinPause(e)
    \/ MixinUnpause(e)
    \/ MixinOnPaused(e)
    \/ MixinOnUnpaused(e)
    \/ MixinOnStarted(e)
    \/ CallForStatus(e)
    \/ UpdateIter(e)
    \/ OnTwistedError(e)

\* ------------------------------------------------------------------- Next
Step(e) ==
    \/ Start(e)
    \/ Pause(e)
    \/ Trash(e)
    \/ Restore(e)
    \/ Remove(e)
    \/ CallTellStatus(e)
    \/ SyncUpdate
    \/ OnStarted(e)
    \/ OnGotSessionInfo(e)
    \/ OnPaused(e)
    \/ OnUnpaused(e)
    \/ OnTrashed(e)
    \/ OnXmlrpcError(e)
    \/ UpdateStatus(e)

Next == Step(Lifecycle)
NextWatched == Step(Watched)
NextData == Step(Data)
NextKinds == Step(Kinds)
NextIdents == Step(Idents)
NextSync == Step(Sync) \/ BeginUpdateStatus \/ EndUpdateStatus
NextMixin == StepMixin(Mixin)

Spec == Init(Lifecycle) /\ [][Next]_vars
SpecWatched == Init(Watched) /\ [][NextWatched]_vars
SpecData == Init(Data) /\ [][NextData]_vars
SpecKinds == Init(Kinds) /\ [][NextKinds]_vars
SpecIdents == Init(Idents) /\ [][NextIdents]_vars
SpecSync == Init(Sync) /\ [][NextSync]_vars
SpecMixin == Init(Mixin) /\ [][NextMixin]_vars

\* =================================================================== claims
Issues(log, m) == \E i \in 1..Len(log.rpcs) : log.rpcs[i].m = m

\* C1: after every transition of a non-deleted task that made add_task or
\* remove_task calls, the task is listed in exactly one of queue, category
\* and dustbin, and listed there once.
C1_ExactlyOneGrouping ==
    (~deleted /\ last.calls # <<>>) => queuing + category + dustbin = 1

\* C2: once a tellStatus result "complete" has been processed for an Active,
\* polled task (it becomes Complete, leaves the queue and joins its
\* category), the next poll tick runs end_update_status and no tellStatus
\* call is issued any more unless start() is invoked again.
C2_CompleteEndsPolling ==
    [][/\ (last'.op = "update_status" /\ settled' = "complete"
              /\ settled # "complete")
          => /\ status' = COMPLETE
             /\ last'.calls = <<<<"queuing", "remove_task">>,
                                <<"category", "add_task">>>>
       /\ (settled = "complete" /\ settled' = "complete")
          => /\ ~Issues(last', "aria2.tellStatus")
             /\ (last'.op = "call_tell_status"
                   => status_update_handle' = None)]_vars

\* C3: when a tellStatus call fails the status becomes Error and one
\* notification is shown; after that, until the user calls start() again,
\* the status stays Error and no tellStatus call is issued.
C3_PollFailureEndsPolling ==
    [][/\ (last'.op = "on_xmlrpc_error" /\ last'.call.m = "aria2.tellStatus")
          => (status' = ERROR /\ last'.notes = 1)
       /\ (settled = "failed" /\ settled' = "failed")
          => (status' = ERROR /\ ~Issues(last', "aria2.tellStatus"))]_vars

\* C4: pause() outside Active/Waiting, start() from Active, Waiting, Complete
\* or Trashed, trash() from Trashed, and restore() or remove() outside
\* Trashed issue no call, emit nothing, show nothing and leave status,
\* identifier, groupings and poller as they were.
C4_InvalidIsNoOp ==
    [][(\/ (last'.op = "pause" /\ status \notin {ACTIVE, WAITING})
        \/ (last'.op = "start"
              /\ status \in {ACTIVE, WAITING, COMPLETE, TRASHED})
        \/ (last'.op = "trash" /\ status = TRASHED)
        \/ (last'.op \in {"restore", "remove"} /\ status # TRASHED))
       => /\ last' = Quiet(last'.op)
          /\ UNCHANGED <<taskVars, pollerVars, groupVars, inflight,
                         deleted>>]_vars

C4_Witness == last = Quiet("pause") /\ status = INACTIVE

\* C5: however often begin_update_status runs, the task has at most one
\* status-poll timeout and at most one database-sync timeout.
C5_OneSchedule == poll_sources <= 1 /\ sync_sources <= 1

C5_Witness ==
    last.op = "on_started" /\ last.timers = 0 /\ poll_sources = 1

\* C6: restore() of a Trashed task removes it from the dustbin and then,
\* when total_length > 0 and completed_length = total_length, makes it
\* Complete in its category, and otherwise Inactive in the queue.
C6_RestoreTarget ==
    [][(last'.op = "restore" /\ status = TRASHED)
       => IF total_length > 0 /\ completed_length = total_length
          THEN /\ status' = COMPLETE
               /\ last'.calls = <<<<"dustbin", "remove_task">>,
                                  <<"category", "add_task">>>>
          ELSE /\ status' = INACTIVE
               /\ last'.calls = <<<<"dustbin", "remove_task">>,
                                  <<"queuing", "add_task">>>>]_vars

C6_Witness ==
    /\ last.op = "restore" /\ status = COMPLETE
    /\ total_length = MaxLen /\ completed_length = MaxLen

\* C7: a status update changes the name only while the task is not yet
\* renamed, and renames it for good; a Metalink task is never renamed.
C7_RenameOnce ==
    [][/\ (name' # name
             => (~renamed /\ renamed' /\ last'.op = "update_status"))
       /\ (renamed => renamed')
       /\ (type = ML => name' = name)]_vars

C7_Witness ==
    /\ last.op = "update_status" /\ type = NORMAL
    /\ name = <<"a">>
    /\ last.arg.files = <<[path |-> <<"b">>]>>

\* C8: after a successful add the identifier is the last element of a list
\* result, or the single identifier returned; every pause, unpause, remove,
\* tellStatus and getSessionInfo call carries the task's identifier.
C8_TrackedIdentifier ==
    /\ last.op = "on_started"
          => gid = (IF last.arg.isList
                    THEN last.arg.val[Len(last.arg.val)]
                    ELSE last.arg.val[1])
    /\ \A i \in 1..Len(last.rpcs) :
          last.rpcs[i].m \notin AddMethods => last.rpcs[i].gid = gid

C8_Witness ==
    /\ last.op = "on_started" /\ type = ML
    /\ last.arg = [isList |-> TRUE, val |-> <<"g1", "g2">>]
    /\ gid = "g2"
    /\ last.rpcs = <<Call("aria2.getSessionInfo", "g2")>>

KindMethod ==
    CASE type = NORMAL -> "aria2.addUri"
      [] type = BT -> "aria2.addTorrent"
      [] type = ML -> "aria2.addMetalink"

C10_StartParts(atStart, atSuccess) ==
    /\ (last'.op = "start" /\ status \in {INACTIVE, ERROR})
       => /\ last'.rpcs = <<Call(KindMethod, NoGid)>>
          /\ last'.calls = atStart
          /\ last'.notes = 0
          /\ UNCHANGED <<status, gid, pollerVars>>
    /\ last'.op = "on_started"
       => /\ status' = ACTIVE
          /\ gid' \in GIDS
          /\ last'.calls = atSuccess
          /\ status_update_handle' # None /\ poll_sources' = 1
          /\ last'.rpcs = <<Call("aria2.getSessionInfo", gid')>>
    /\ (last'.op = "on_xmlrpc_error" /\ last'.call.m \in AddMethods)
       => /\ status' = ERROR
          /\ last'.notes = 1
          /\ last'.calls = <<>> /\ last'.rpcs = <<>>
          /\ UNCHANGED <<gid, pollerVars>>

C10_QueueOnSuccess ==
    [][C10_StartParts(<<>>, <<<<"queuing", "add_task">>>>)]_vars

\* C10: start() on an Inactive or Error task issues the kind-specific add
\* call and makes the queue add_task at once, whatever the outcome of the
\* call; identifier, Active, poller and session fetch come with its success;
\* its failure gives Error and one notification and none of these.
C10_QueueAtStart ==
    [][C10_StartParts(<<<<"queuing", "add_task">>>>, <<>>)]_vars

C10_Witness ==
    /\ last.op = "on_xmlrpc_error" /\ last.call.m = "aria2.addTorrent"
    /\ status = ERROR /\ gid = "" /\ queuing = 1
    /\ status_update_handle = None

\* C11: a failed getSessionInfo call shows one notification and leaves the
\* status as it was.
C11_SessionFetchBestEffort ==
    [][(last'.op = "on_xmlrpc_error"
          /\ last'.call.m = "aria2.getSessionInfo")
       => (last'.notes = 1 /\ status' = status)]_vars

\* C12: start() on a Paused task issues one unpause call with the task's
\* identifier and no add call; the answer makes the task Active, the failure
\* makes it Error with one notification; the identifier and the groupings
\* are the same after each of the three steps.
C12_StartPausedUnpauses ==
    [][/\ (last'.op = "start" /\ status = PAUSED)
          => /\ last'.rpcs = <<Call("aria2.unpause", gid)>>
             /\ last'.calls = <<>> /\ last'.notes = 0
             /\ UNCHANGED <<status, gid, groupVars>>
       /\ last'.op = "on_unpaused"
          => /\ status' = ACTIVE
             /\ last'.calls = <<>> /\ last'.rpcs = <<>> /\ last'.notes = 0
             /\ UNCHANGED <<gid, groupVars>>
       /\ (last'.op = "on_xmlrpc_error" /\ last'.call.m = "aria2.unpause")
          => /\ status' = ERROR /\ last'.notes = 1
             /\ last'.calls = <<>> /\ last'.rpcs = <<>>
             /\ UNCHANGED <<gid, groupVars>>]_vars

C12_Witness ==
    /\ last.op = "on_unpaused" /\ last.call = Call("aria2.unpause", "g1")
    /\ last.changed = 1 /\ status = ACTIVE /\ gid = "g1" /\ queuing = 1

\* C13: pause() on an Active or Waiting task issues one pause call with the
\* task's identifier and leaves the status as it is; the answer makes the
\* task Paused, the failure makes it Error with one notification.
C13_PauseRunning ==
    [][/\ (last'.op = "pause" /\ status \in {ACTIVE, WAITING})
          => /\ last'.rpcs = <<Call("aria2.pause", gid)>>
             /\ last'.calls = <<>> /\ last'.notes = 0
             /\ status' = status
       /\ last'.op = "on_paused"
          => (status' = PAUSED /\ last'.rpcs = <<>> /\ last'.notes = 0)
       /\ (last'.op = "on_xmlrpc_error" /\ last'.call.m = "aria2.pause")
          => (status' = ERROR /\ last'.notes = 1 /\ last'.rpcs = <<>>)]_vars

C13_Witness ==
    /\ last.op = "on_paused" /\ last.call = Call("aria2.pause", "g1")
    /\ last.changed = 1 /\ status = PAUSED

\* C14: trash() on a Complete, Error or Inactive task makes it Trashed in
\* the call, with no remote call; on a Waiting, Active or Paused task it
\* issues one remove call and leaves the status; the answer of the remove
\* call makes the task Trashed; its failure makes it Error with one
\* notification and no add_task on the dustbin.
C14_TrashLocalOrRemote ==
    [][/\ (last'.op = "trash" /\ status \in {COMPLETE, ERROR, INACTIVE})
          => (status' = TRASHED /\ last'.rpcs = <<>>)
       /\ (last'.op = "trash" /\ status \in {WAITING, ACTIVE, PAUSED})
          => /\ last'.rpcs = <<Call("aria2.remove", gid)>>
             /\ last'.calls = <<>>
             /\ status' = status
       /\ last'.op = "on_trashed" => status' = TRASHED
       /\ (last'.op = "on_xmlrpc_error" /\ last'.call.m = "aria2.remove")
          => /\ status' = ERROR /\ last'.notes = 1
             /\ last'.calls = <<>> /\ dustbin' = dustbin]_vars

C14_Witness ==
    /\ last.op = "on_xmlrpc_error" /\ last.call = Call("aria2.remove", "g1")
    /\ status = ERROR /\ last.notes = 1 /\ dustbin = 0 /\ queuing = 1

\* C15: a step that makes the task Trashed makes one remove_task on the
\* grouping that holds the task (the category when the task was moved
\* there, the queue otherwise) and then one add_task on the dustbin, and no
\* other add_task / remove_task.
C15_TrashLeavesHolder ==
    [][(status' = TRASHED /\ status # TRASHED)
       => /\ (category = 1 /\ queuing = 0)
             => last'.calls = <<<<"category", "remove_task">>,
                                <<"dustbin", "add_task">>>>
          /\ (queuing = 1 /\ category = 0)
             => last'.calls = <<<<"queuing", "remove_task">>,
                                <<"dustbin", "add_task">>>>]_vars

\* C16: remove() on a Trashed task makes one remove_task on the dustbin and
\* deletes the record; after the deletion no step makes an add_task or a
\* remove_task or changes the status.
C16_RemoveIsFinal ==
    [][/\ (last'.op = "remove" /\ status = TRASHED)
          => /\ last'.calls = <<<<"dustbin", "remove_task">>>>
             /\ deleted'
       /\ deleted => (last'.calls = <<>> /\ status' = status)]_vars

\* C17: the failure of an add, unpause, pause, remove or tellStatus call
\* makes the task Error with one notification and issues no call; after
\* the failure of such a call with no add outstanding, and while the user
\* does not operate the task, no remote call is issued (stated for a task
\* that was started once, so that no grouping holds it twice).
C17_NoCallAfterFailure ==
    [][/\ (last'.op = "on_xmlrpc_error"
             /\ last'.call.m # "aria2.getSessionInfo")
          => (status' = ERROR /\ last'.notes = 1 /\ last'.rpcs = <<>>)
       /\ (settled = "refused" /\ settled' = "refused"
             /\ queuing + category + dustbin <= 1)
          => last'.rpcs = <<>>]_vars

\* C18: an Active, Waiting, Paused, Complete or Error task has a non-empty
\* identifier, and an Inactive task an empty one.
C18_GidEmptyIffUnstarted ==
    /\ status \in {ACTIVE, WAITING, PAUSED, COMPLETE, ERROR} => gid # ""
    /\ status = INACTIVE => gid = ""

\* C19: each processed tellStatus response emits the task's 'changed'
\* signal exactly once.
C19_ChangedOncePerResponse ==
    [][last'.op = "update_status" => last'.changed = 1]_vars

\* C20: a step that changes the status commits in the same step; the
\* periodic sync commit runs only while the poller is installed, and the
\* sync timeout exists exactly when the poll timeout does.
C20_CommitWithStatusChange ==
    [][/\ status' # status => last'.commits >= 1
       /\ last'.op = "sync_update"
          => (status_update_handle # None /\ poll_sources = 1)
       /\ (sync_sources' = 0) <=> (poll_sources' = 0)
       /\ (sync_sources' = 0) <=> (status_update_handle' = None)
       /\ last'.cancels > 0 => (poll_sources' = 0 /\ sync_sources' = 0)]_vars

C20_Witness ==
    /\ last.op = "on_paused" /\ last.changed = 1 /\ last.commits = 1
    /\ status = PAUSED /\ sync_sources = 1 /\ poll_sources = 1
    /\ database_sync_handle # None

\* C21: whenever the status is Active, Waiting or Paused, the status-poll
\* handle is set.
C21_TrackedIsPolled ==
    status \in {ACTIVE, WAITING, PAUSED} => status_update_handle # None

\* C22: a tellStatus response processed when the task is Complete, Error,
\* Trashed or Inactive does not make it Active, Waiting or Paused and makes
\* no add_task / remove_task.
C22_StaleResponseIgnored ==
    [][(last'.op = "update_status"
          /\ status \in {COMPLETE, ERROR, TRASHED, INACTIVE})
       => /\ status' \notin {ACTIVE, WAITING, PAUSED}
          /\ last'.calls = <<>>]_vars

\* C23: of the answer of the user's remove call and the tellStatus response
\* 'removed', processed one right after the other in either order, only the
\* first moves the task: the second finds it Trashed and held by the dustbin
\* once, and makes no add_task / remove_task.
C23_TrashedOnce ==
    [][(/\ status = TRASHED /\ dustbin = 1 /\ queuing = 0 /\ category = 0
        /\ \/ (last.op = "update_status" /\ last'.op = "on_trashed")
           \/ (last.op = "on_trashed" /\ last'.op = "update_status"
                  /\ last'.arg.status = "removed"))
       => (status' = TRASHED /\ last'.calls = <<>>)]_vars

\* C24: after remove() has deleted the record of the Trashed task, the
\* status-poll handle and the sync handle are unset.
C24_DeletedIsUnpolled ==
    (deleted /\ status = TRASHED)
        => (status_update_handle = None /\ database_sync_handle = None)

\* C25: a poll tick of an Active, Waiting or Paused task issues one
\* tellStatus call with the task's identifier and keeps both timeouts; a
\* poll tick of a Complete, Error, Trashed or Inactive task issues no call
\* and ends the poller: both handles unset, no timeout left.
C25_TickDecidesByStatus ==
    [][last'.op = "call_tell_status"
       => IF status \in {ACTIVE, WAITING, PAUSED}
          THEN /\ last'.rpcs = <<Call("aria2.tellStatus", gid)>>
               /\ last'.cancels = 0
               /\ UNCHANGED <<status, pollerVars>>
          ELSE /\ last'.rpcs = <<>>
               /\ status_update_handle' = None
               /\ database_sync_handle' = None
               /\ poll_sources' = 0 /\ sync_sources' = 0
               /\ status' = status]_vars

C25_Witness ==
    /\ last.op = "call_tell_status" /\ last.cancels = 2 /\ last.rpcs = <<>>
    /\ status = ERROR /\ status_update_handle = None /\ poll_sources = 0

\* C26: end_update_status() leaves both handles unset and no timeout
\* installed, removes one timeout for each handle that was set, and changes
\* nothing and removes nothing when the poller is not running.
C26_EndIsIdempotent ==
    [][last'.op = "end_update_status"
       => /\ status_update_handle' = None /\ database_sync_handle' = None
          /\ poll_sources' = 0 /\ sync_sources' = 0
          /\ last'.cancels = (IF status_update_handle # None THEN 1 ELSE 0)
                               + (IF database_sync_handle # None THEN 1 ELSE 0)
          /\ (status_update_handle = None /\ database_sync_handle = None)
                => (UNCHANGED pollerVars /\ last'.cancels = 0)
          /\ UNCHANGED <<taskVars, groupVars, inflight, deleted>>]_vars

C26_Witness ==
    /\ last.op = "end_update_status" /\ last.cancels = 0
    /\ status = ACTIVE /\ status_update_handle = None
    /\ database_sync_handle = None /\ poll_sources = 0 /\ sync_sources = 0

\* C27: a processed tellStatus response stores the reported byte counts,
\* speeds and connection count, sets the status by the fixed mapping, and
\* makes the queue-to-category calls for 'complete' only, the
\* queue-to-dustbin calls for 'removed' only, and none for the other four.
C27_ResponseApplied ==
    [][last'.op = "update_status"
       => LET r == last'.arg
          IN  /\ Numeral(total_length') = r.totalLength
              /\ Numeral(completed_length') = r.completedLength
              /\ <<Numeral(load'[1]), Numeral(load'[2]), Numeral(load'[3])>>
                    = <<r.downloadSpeed, r.uploadSpeed, r.connections>>
              /\ status' = (CASE r.status = "active" -> ACTIVE
                              [] r.status = "waiting" -> WAITING
                              [] r.status = "paused" -> PAUSED
                              [] r.status = "complete" -> COMPLETE
                              [] r.status = "error" -> ERROR
                              [] r.status = "removed" -> TRASHED)
              /\ last'.calls =
                    (CASE r.status = "complete"
                            -> <<<<"queuing", "remove_task">>,
                                 <<"category", "add_task">>>>
                       [] r.status = "removed"
                            -> <<<<"queuing", "remove_task">>,
                                 <<"dustbin", "add_task">>>>
                       [] OTHER -> <<>>)]_vars

C27_Witness ==
    /\ last.op = "update_status" /\ last.arg.status = "waiting"
    /\ status = WAITING /\ total_length = MaxLen /\ completed_length = 1
    /\ load = <<1, 2, 3>> /\ queuing = 1 /\ category = 0 /\ dustbin = 0

\* C28: every processed tellStatus response sets the pool's connectivity
\* flag, and no failed call sets it.
C28_ConnectedOnResponse ==
    [][/\ last'.op = "update_status" => last'.connected
       /\ last'.op = "on_xmlrpc_error" => ~last'.connected]_vars

C30_EventsAgreeWithStatus ==
    (queuing + category + dustbin = 1 /\ ~deleted)
        => /\ dustbin = 1 <=> status = TRASHED
           /\ category = 1 <=> status = COMPLETE
           /\ queuing = 1 <=>
                 status \in {INACTIVE, ACTIVE, WAITING, PAUSED, ERROR}

\* The add calls in flight.
AddsOutstanding ==
    BagCardinality([c \in Pending(AddMethods) |-> inflight[c]])

\* C31: the status of a Trashed task held by the dustbin alone, with no add
\* call outstanding, is not changed by the answer or the failure of a call
\* issued earlier (tellStatus, getSessionInfo, pause, unpause, remove): it
\* stays Trashed.
C31_TrashedUntilRestore ==
    [][(/\ status = TRASHED /\ ~deleted /\ AddsOutstanding = 0
        /\ queuing = 0 /\ category = 0 /\ dustbin = 1
        /\ last'.op \in {"update_status", "on_got_session_info", "on_paused",
                         "on_unpaused", "on_trashed", "on_xmlrpc_error"})
       => status' = TRASHED]_vars

\* C32: at most one add call of the task is outstanding, and a start() while
\* one is outstanding issues no call and makes no add_task call.
C32_OneAddOutstanding ==
    /\ AddsOutstanding <= 1
    /\ [][(last'.op = "start" /\ AddsOutstanding = 1)
            => (last'.rpcs = <<>> /\ last'.calls = <<>>)]_vars

\* C33: the status-poll handle and the sync handle are both set or both
\* unset, and only _on_started, a poll tick, begin_update_status and
\* end_update_status change either.
C33_HandlesTogether ==
    /\ (status_update_handle = None) <=> (database_sync_handle = None)
    /\ [][/\ (status_update_handle' = None) <=> (database_sync_handle' = None)
          /\ last'.op \notin {"on_started", "call_tell_status",
                              "begin_update_status", "end_update_status"}
                => UNCHANGED <<status_update_handle, database_sync_handle>>]_vars

C33_Witness ==
    /\ last.op = "begin_update_status" /\ last.timers = 2
    /\ status_update_handle # None /\ database_sync_handle # None

\* C34: in the first-generation TaskMixin a poll tick issues one tellStatus
\* with the stored gid while the gid is not empty; a 'complete' response
\* empties the gid; and a tick after a 'complete' response is the first one
\* since, issues no call and leaves no poll installed.
C34_PollEndsOnComplete ==
    [][/\ (last'.op = "mixin.call_for_status" /\ info_gid # "")
            => /\ last'.rpcs = <<Call("aria2.tellStatus", info_gid)>>
               /\ UNCHANGED status_timeouts
       /\ (last'.op = "mixin.update_iter" /\ last'.arg.status = "complete")
            => info_gid' = ""
       /\ (last'.op = "mixin.call_for_status" /\ after_complete # Never)
            => /\ after_complete = 0
               /\ last'.rpcs = <<>>
               /\ status_timeouts' = 0]_vars

====
